---------------------------- MODULE Spec2Model ----------------------------
(***************************************************************************)
(* Model of the LEGO MINDSTORMS EV3 extension                              *)
(* (src/src/extensions/scratch3_ev3/index.js): the byte encoding of motor  *)
(* commands, the frame prefix, the base64 transport encoding, and the      *)
(* scan / connect / send life cycle driven by Scratch Link callbacks.      *)
(***************************************************************************)
EXTENDS Integers, Sequences, FiniteSets, TLC

VARIABLES
    connected,      \* this.connected
    scanTimer,      \* ms left on the constructor's setTimeout(_scan, 500); -1 once it has fired
    scanRequest,    \* the promise of bt.requestDevice: "none", "pending", "resolved", "rejected"
    connectCalls,   \* number of bt.connectDevice calls made so far
    connectPending, \* number of bt.connectDevice promises not yet settled
    connectResult,  \* how the last settled connectDevice promise ended: "none", "resolved", "rejected"
    peripheral,     \* peripheralId passed to the last bt.connectDevice call
    lastDiscovered, \* peripheralId of the last didDiscoverPeripheral call logged
    sent,           \* the bt.sendMessage calls made so far, in order
    calls,          \* the block calls that returned a promise, in order
    lastReturn,     \* what the last block call returned: "none", "undefined", "promise"
    enc             \* the encoder harness: arguments and result of one encoding

vars == <<connected, scanTimer, scanRequest, connectCalls, connectPending,
          connectResult, peripheral, lastDiscovered, sent, calls, lastReturn, enc>>

-----------------------------------------------------------------------------
(* Bounds of the model *)

MaxSends == 1
MaxConnects == 2
MaxDuration == 12
MaxRampArg == 7

Peripherals == {"ev3-a", "ev3-b"}

-----------------------------------------------------------------------------
(* Scratch3Ev3Blocks.PRIMITIVE and the other constants of the source *)

LAYER == 0
NUM8 == 129
NUM16 == 130
NUM32 == 131
BRAKE == 1
LONGRAMP == 50
STEPSPEED == 174
TIMESPEED == 175
speed == 50
ScanDelay == 500

\* Time advances in steps of this many milliseconds.
Quantum == ScanDelay

\* Scratch3Ev3Blocks.MOTOR_PORTS: the port labels and their bit flags.
MOTOR_PORTS ==
    <<[name |-> "A", value |-> 1], [name |-> "B", value |-> 2],
      [name |-> "C", value |-> 4], [name |-> "D", value |-> 8]>>

\* _buildMenu(info): entry number index + 1 (counted from 0) gets the text
\* entry.name and the value String(index + 1), which Cast.toNumber reads
\* back as that number.
_buildMenu(info) ==
    [k \in 1..Len(info) |-> [text |-> info[k].name, value |-> k]]

\* Menu values offered for PORT: _buildMenu gives String(index + 1) for the
\* four entries of MOTOR_PORTS.
MenuValues == 1..4

Min(a, b) == IF a < b THEN a ELSE b
Max(a, b) == IF a > b THEN a ELSE b


-----------------------------------------------------------------------------
(* Command encoder, frame builder and transport codec *)

\* Mutant: the run length written high byte first.
C9_getRunValues_bigEndian(run) ==
    IF run < 32767
    THEN <<NUM16, (run \div 256) % 256, run % 256>>
    ELSE <<NUM32, (run \div 16777216) % 256, (run \div 65536) % 256,
           (run \div 256) % 256, run % 256>>

\* Mutant: the threshold taken at the unsigned 16-bit maximum.
C12_getRunValues_unsignedThreshold(run) ==
    IF run < 65535
    THEN <<NUM16, run % 256, (run \div 256) % 256>>
    ELSE <<NUM32, run % 256, (run \div 256) % 256,
           (run \div 65536) % 256, (run \div 16777216) % 256>>

\* getRunValues (nested in _motorCommand). For a non-negative run,
\* run & 0xff is run % 256 and (run >> k) & 0xff is (run \div 2^k) % 256.
getRunValues(run) ==
    IF run < 32767
    THEN <<NUM16, run % 256, (run \div 256) % 256>>
    ELSE <<NUM32, run % 256, (run \div 256) % 256,
           (run \div 65536) % 256, (run \div 16777216) % 256>>

\* getRunValues on a run of hi * 65536 + lo with 0 <= lo < 65536, a run a
\* JavaScript number holds exactly: & and >> take the run modulo 2^32, so
\* the bytes are those of lo and of the low 16 bits of hi.
getRunValuesWide(hi, lo) ==
    IF hi = 0
    THEN getRunValues(lo)
    ELSE <<NUM32, lo % 256, (lo \div 256) % 256,
           hi % 256, (hi \div 256) % 256>>

\* Mutant: a negative speed is left negative while n changes sign.
C23_NormSpeed_signKept(n, spd) == spd

\* The sign normalisation of _motorCommand: a negative speed is made
\* positive and the input value n changes sign with it.
NormSpeed(n, spd) == IF spd < 0 THEN -1 * spd ELSE spd

\* Mutant: the input value keeps its sign when the speed is negated.
C13_NormN_signKept(n, spd) == n

NormN(n, spd) == IF spd < 0 THEN -1 * n ELSE n

\* Mutant: dir emitted without & 0xff.
C14_DirByte_unmasked(n, spd) ==
    LET s == NormSpeed(n, spd)
        m == NormN(n, spd)
    IN  IF m < 0 THEN 256 - s ELSE s

\* dir & 0xff, with dir = (n < 0) ? 0x100 - speed : speed after normalisation.
DirByte(n, spd) ==
    LET s == NormSpeed(n, spd)
        m == NormN(n, spd)
        dir == IF m < 0 THEN 256 - s ELSE s
    IN  dir % 256

Abs(n) == IF n < 0 THEN -n ELSE n

\* Mutant: a short run split into two equal halves, rampdown = rampup.
C10_RampProfile_equalHalves(n, ramp) ==
    LET run == n - ramp * 2
    IN  IF run < 0
        THEN [rampup |-> n \div 2, run |-> 0, rampdown |-> n \div 2]
        ELSE [rampup |-> ramp, run |-> run, rampdown |-> ramp]

\* Mutant: only one ramp taken off the steady run.
C11_RampProfile_oneRamp(n, ramp) ==
    LET run == n - ramp * 2
    IN  IF run < 0
        THEN [rampup |-> n \div 2, run |-> 0, rampdown |-> n - (n \div 2)]
        ELSE [rampup |-> ramp, run |-> n - ramp, rampdown |-> ramp]

\* Mutant: a short run split with the larger half first.
C24_RampProfile_ceilFirst(n, ramp) ==
    LET run == n - ramp * 2
    IN  IF run < 0
        THEN [rampup |-> n - (n \div 2), run |-> 0, rampdown |-> n \div 2]
        ELSE [rampup |-> ramp, run |-> run, rampdown |-> ramp]

\* The ramp profile of _motorCommand for run length n = Math.abs(n):
\* ramp up, steady run, ramp down.
RampProfile(n, ramp) ==
    LET run == n - ramp * 2
    IN  IF run < 0
        THEN [rampup |-> n \div 2, run |-> 0, rampdown |-> n - (n \div 2)]
        ELSE [rampup |-> ramp, run |-> run, rampdown |-> ramp]

\* Mutant: the instruction ends with COAST (0) instead of BRAKE.
C16_motorCommand_coast(command, port, n, spd, ramp) ==
    LET dir == DirByte(n, spd)
        p == RampProfile(Abs(NormN(n, spd)), ramp)
        runcmd == getRunValues(p.run)
    IN  <<command, LAYER, port, NUM8, dir, NUM8, p.rampup>>
            \o runcmd \o <<NUM8, p.rampdown, 0>>

_motorCommand(command, port, n, spd, ramp) ==
    LET dir == DirByte(n, spd)
        p == RampProfile(Abs(NormN(n, spd)), ramp)
        runcmd == getRunValues(p.run)
    IN  <<command, LAYER, port, NUM8, dir, NUM8, p.rampup>>
            \o runcmd \o <<NUM8, p.rampdown, BRAKE>>

\* Mutant: the length field counts the two length bytes as well.
C15_applyPrefix_wholeFrame(n, cmd) ==
    LET len == Len(cmd) + 7
    IN  <<len % 256, (len \div 256) % 256, 1, 0, 0, n, 0>> \o cmd

_applyPrefix(n, cmd) ==
    LET len == Len(cmd) + 5
    IN  <<len % 256, (len \div 256) % 256, 1, 0, 0, n, 0>> \o cmd

\* The base64 alphabet of window.btoa.
B64 ==
    <<"A","B","C","D","E","F","G","H","I","J","K","L","M","N","O","P",
      "Q","R","S","T","U","V","W","X","Y","Z","a","b","c","d","e","f",
      "g","h","i","j","k","l","m","n","o","p","q","r","s","t","u","v",
      "w","x","y","z","0","1","2","3","4","5","6","7","8","9","+","/">>

\* new Uint8Array(buffer): every element is taken modulo 256.
Uint8Array(buffer) == [i \in 1..Len(buffer) |-> buffer[i] % 256]

\* window.btoa on the binary string of the bytes: three bytes give four
\* characters, a last group of one or two bytes is padded with "=".
RECURSIVE btoa(_)
btoa(bytes) ==
    IF Len(bytes) = 0 THEN <<>>
    ELSE IF Len(bytes) = 1 THEN
        <<B64[(bytes[1] \div 4) + 1], B64[(bytes[1] % 4) * 16 + 1], "=", "=">>
    ELSE IF Len(bytes) = 2 THEN
        <<B64[(bytes[1] \div 4) + 1],
          B64[(bytes[1] % 4) * 16 + (bytes[2] \div 16) + 1],
          B64[(bytes[2] % 16) * 4 + 1], "=">>
    ELSE
        <<B64[(bytes[1] \div 4) + 1],
          B64[(bytes[1] % 4) * 16 + (bytes[2] \div 16) + 1],
          B64[(bytes[2] % 16) * 4 + (bytes[3] \div 64) + 1],
          B64[(bytes[3] % 64) + 1]>>
            \o btoa(SubSeq(bytes, 4, Len(bytes)))

_arrayBufferToBase64(buffer) == btoa(Uint8Array(buffer))

\* The literal message of beep(): 'DwAAAIAAAJQBgQKC6AOC6AM='.
BeepMessage ==
    <<"D","w","A","A","A","I","A","A","A","J","Q","B",
      "g","Q","K","C","6","A","O","C","6","A","M","=">>

\* The frame a turn block sends: Cast.toNumber(args.TIME) * 1000 is the run
\* length, spd is this.speed or this.speed * -1.
TurnMessage(port, secs, spd) ==
    _arrayBufferToBase64(
        _applyPrefix(0, _motorCommand(TIMESPEED, port, secs * 1000, spd, LONGRAMP)))

\* Mutant: the completion timer set with no delay.
C6_TimerDelay_none(time) == 0

\* setTimeout(f, time): a negative delay is treated as 0.
TimerDelay(time) == IF time < 0 THEN 0 ELSE time

-----------------------------------------------------------------------------
(* The extension: construction, Scratch Link callbacks, timers and blocks *)

EncOff ==
    [stage |-> "off", port |-> 0, n |-> 0, spd |-> 0, ramp |-> 0,
     command |-> 0, out |-> <<>>, runvals |-> <<>>, addr |-> 0, frame |-> <<>>,
     hi |-> 0, op |-> "none", message |-> <<>>]

\* The constructor: not connected, the scan timer armed, the
\* didReceiveCall handler installed, nothing requested or sent yet.
constructor ==
    /\ connected = FALSE
    /\ scanTimer = ScanDelay
    /\ scanRequest = "none"
    /\ connectCalls = 0
    /\ connectPending = 0
    /\ connectResult = "none"
    /\ peripheral = "none"
    /\ lastDiscovered = "none"
    /\ sent = <<>>
    /\ calls = <<>>
    /\ lastReturn = "none"

Init == constructor /\ enc = EncOff

\* The connection state of the specification, read off the extension's
\* fields and its outstanding requests: Scanning once the device request is
\* accepted and no connect was attempted, Connecting while this.connected
\* is set and the connect request is pending, Connected once it resolved.
ConnectionState ==
    IF connected
    THEN IF connectPending > 0 THEN "Connecting" ELSE "Connected"
    ELSE IF scanRequest = "resolved" /\ connectCalls = 0
         THEN "Scanning"
         ELSE "Disconnected"

\* Time passes: the scan timer and the timers of the waiting turn calls
\* run down (an elapsed time is counted up to the call's duration).
Tick ==
    /\ scanTimer' = Max(0, scanTimer - Quantum)
    /\ calls' = [i \in DOMAIN calls |->
                    IF calls[i].timer /\ calls[i].status = "waiting"
                    THEN [calls[i] EXCEPT
                            !.elapsed = Min(@ + Quantum, Max(0, calls[i].time))]
                    ELSE calls[i]]
    /\ UNCHANGED <<connected, scanRequest, connectCalls, connectPending,
                   connectResult, peripheral, lastDiscovered, sent,
                   lastReturn, enc>>

\* Mutant: the scan is started again after a rejected request.
C19_scan_retried ==
    /\ scanTimer = 0
    /\ scanRequest \in {"none", "rejected"}
    /\ scanRequest' = "pending"
    /\ UNCHANGED <<connected, scanTimer, connectCalls, connectPending,
                   connectResult, peripheral, lastDiscovered, sent, calls,
                   lastReturn, enc>>

\* The constructor's timer fires: _scan calls bt.requestDevice.
_scan ==
    /\ scanTimer = 0
    /\ scanRequest = "none"
    /\ scanRequest' = "pending"
    /\ UNCHANGED <<connected, scanTimer, connectCalls, connectPending,
                   connectResult, peripheral, lastDiscovered, sent, calls,
                   lastReturn, enc>>

\* requestDevice resolves or rejects: both handlers only log.
ScanResolved ==
    /\ scanRequest = "pending"
    /\ scanRequest' = "resolved"
    /\ UNCHANGED <<connected, scanTimer, connectCalls, connectPending,
                   connectResult, peripheral, lastDiscovered, sent, calls,
                   lastReturn, enc>>

ScanRejected ==
    /\ scanRequest = "pending"
    /\ scanRequest' = "rejected"
    /\ UNCHANGED <<connected, scanTimer, connectCalls, connectPending,
                   connectResult, peripheral, lastDiscovered, sent, calls,
                   lastReturn, enc>>

\* Mutant: _connect without this.connected = true.
C3_connect_flagNotSet(peripheralId) ==
    /\ connectCalls < MaxConnects
    /\ connected' = connected
    /\ connectCalls' = connectCalls + 1
    /\ connectPending' = connectPending + 1
    /\ peripheral' = peripheralId

\* _connect: this.connected = true, then bt.connectDevice({peripheralId}).
_connect(peripheralId) ==
    /\ connectCalls < MaxConnects
    /\ connected' = TRUE
    /\ connectCalls' = connectCalls + 1
    /\ connectPending' = connectPending + 1
    /\ peripheral' = peripheralId

\* Mutant: the handler without its if (!this.connected) test.
C2_discover_unguarded(peripheralId) ==
    /\ scanRequest = "resolved"
    /\ lastDiscovered' = peripheralId
    /\ _connect(peripheralId)
    /\ UNCHANGED <<scanTimer, scanRequest, connectResult, sent, calls,
                   lastReturn, enc>>

\* bt.didReceiveCall('didDiscoverPeripheral', params). Scratch Link reports
\* peripherals only after it has accepted the device request, and the
\* request's promise is resolved before any later notification is handled.
DidDiscoverPeripheral(peripheralId) ==
    /\ scanRequest = "resolved"
    /\ lastDiscovered' = peripheralId
    /\ IF ~connected
       THEN _connect(peripheralId)
       ELSE UNCHANGED <<connected, connectCalls, connectPending, peripheral>>
    /\ UNCHANGED <<scanTimer, scanRequest, connectResult, sent, calls,
                   lastReturn, enc>>

\* Mutant: a message from the peripheral resets the connection flag.
C21_message_resets ==
    /\ connectCalls > 0
    /\ connected' = FALSE
    /\ UNCHANGED <<scanTimer, scanRequest, connectCalls, connectPending,
                   connectResult, peripheral, lastDiscovered, sent, calls,
                   lastReturn, enc>>

\* bt.didReceiveCall('didReceiveMessage', params): logged only. Scratch Link
\* delivers peripheral messages once a connection has been requested.
DidReceiveMessage ==
    /\ connectCalls > 0
    /\ UNCHANGED vars

\* Mutant: a command dropped earlier is transmitted once connected.
C20_resolve_replays ==
    /\ connectPending > 0
    /\ connectPending' = connectPending - 1
    /\ connectResult' = "resolved"
    /\ IF lastReturn = "undefined" /\ Len(sent) < MaxSends
       THEN sent' = Append(sent, [call |-> 0, message |-> BeepMessage,
                                  result |-> "pending"])
       ELSE sent' = sent
    /\ UNCHANGED <<connected, scanTimer, scanRequest, connectCalls,
                   peripheral, lastDiscovered, calls, lastReturn, enc>>

\* connectDevice resolves: logged only.
ConnectResolved ==
    /\ connectPending > 0
    /\ connectPending' = connectPending - 1
    /\ connectResult' = "resolved"
    /\ UNCHANGED <<connected, scanTimer, scanRequest, connectCalls,
                   peripheral, lastDiscovered, sent, calls, lastReturn, enc>>

\* Mutant: the rejection handler without this.connected = false.
C4_reject_flagKept ==
    /\ connectPending > 0
    /\ connectPending' = connectPending - 1
    /\ connectResult' = "rejected"
    /\ UNCHANGED <<connected, scanTimer, scanRequest, connectCalls,
                   peripheral, lastDiscovered, sent, calls, lastReturn, enc>>

\* connectDevice rejects: this.connected = false.
ConnectRejected ==
    /\ connectPending > 0
    /\ connectPending' = connectPending - 1
    /\ connectResult' = "rejected"
    /\ connected' = FALSE
    /\ UNCHANGED <<scanTimer, scanRequest, connectCalls, peripheral,
                   lastDiscovered, sent, calls, lastReturn, enc>>

\* if (!this.connected) return;
Dropped ==
    /\ lastReturn' = "undefined"
    /\ UNCHANGED <<connected, scanTimer, scanRequest, connectCalls,
                   connectPending, connectResult, peripheral, lastDiscovered,
                   sent, calls, enc>>

\* bt.sendMessage({message, encoding: 'base64'}) followed by the promise
\* the block returns; timer says whether the promise is a setTimeout one.
Send(op, port, message, time, timer) ==
    /\ Len(sent) < MaxSends
    /\ sent' = Append(sent, [call |-> Len(calls) + 1, message |-> message,
                             result |-> "pending"])
    /\ calls' = Append(calls, [op |-> op, port |-> port, time |-> time,
                               timer |-> timer, elapsed |-> 0,
                               status |-> "waiting"])
    /\ lastReturn' = "promise"
    /\ UNCHANGED <<connected, scanTimer, scanRequest, connectCalls,
                   connectPending, connectResult, peripheral, lastDiscovered,
                   enc>>

motorTurnClockwise(port, secs) ==
    IF ~connected
    THEN Dropped
    ELSE Send("motorTurnClockwise", port, TurnMessage(port, secs, speed),
              secs * 1000, TRUE)

motorTurnCounterClockwise(port, secs) ==
    IF ~connected
    THEN Dropped
    ELSE Send("motorTurnCounterClockwise", port,
              TurnMessage(port, secs, speed * (-1)), secs * 1000, TRUE)

\* Mutant: beep without its if (!this.connected) return.
C5_beep_ungated == Send("beep", 0, BeepMessage, 0, FALSE)

\* Mutant: beep yielding on a timer like the turn blocks.
C8_beep_timed ==
    IF ~connected
    THEN Dropped
    ELSE Send("beep", 0, BeepMessage, 0, TRUE)

beep ==
    IF ~connected
    THEN Dropped
    ELSE Send("beep", 0, BeepMessage, 0, FALSE)

\* Mutant: the timer callback gives up once the connection is gone.
C7_timer_needsConnection(i) ==
    /\ i \in DOMAIN calls
    /\ connected
    /\ calls[i].timer
    /\ calls[i].status = "waiting"
    /\ calls[i].elapsed >= TimerDelay(calls[i].time)
    /\ calls' = [calls EXCEPT ![i].status = "resolved"]
    /\ UNCHANGED <<connected, scanTimer, scanRequest, connectCalls,
                   connectPending, connectResult, peripheral, lastDiscovered,
                   sent, lastReturn, enc>>

\* The setTimeout callback of a turn call resolves its promise.
TimerFires(i) ==
    /\ i \in DOMAIN calls
    /\ calls[i].timer
    /\ calls[i].status = "waiting"
    /\ calls[i].elapsed >= TimerDelay(calls[i].time)
    /\ calls' = [calls EXCEPT ![i].status = "resolved"]
    /\ UNCHANGED <<connected, scanTimer, scanRequest, connectCalls,
                   connectPending, connectResult, peripheral, lastDiscovered,
                   sent, lastReturn, enc>>

\* The promise of a sendMessage call settles. beep returns that promise, so
\* its call settles with it; a turn call drops the promise.
Settle(i, result, status) ==
    /\ sent[i].result = "pending"
    /\ sent' = [sent EXCEPT ![i].result = result]
    /\ calls' = [c \in DOMAIN calls |->
                    IF c = sent[i].call /\ ~calls[c].timer
                    THEN [calls[c] EXCEPT !.status = status]
                    ELSE calls[c]]
    /\ UNCHANGED <<connected, scanTimer, scanRequest, connectCalls,
                   connectPending, connectResult, peripheral, lastDiscovered,
                   lastReturn, enc>>

SendAcknowledged(i) == Settle(i, "acked", "resolved")

\* Mutant: a rejected sendMessage marks the extension as not connected.
C22_sendFailure_disconnects(i) ==
    /\ sent[i].result = "pending"
    /\ sent' = [sent EXCEPT ![i].result = "rejected"]
    /\ calls' = [c \in DOMAIN calls |->
                    IF c = sent[i].call /\ ~calls[c].timer
                    THEN [calls[c] EXCEPT !.status = "rejected"]
                    ELSE calls[c]]
    /\ connected' = FALSE
    /\ UNCHANGED <<scanTimer, scanRequest, connectCalls, connectPending,
                   connectResult, peripheral, lastDiscovered, lastReturn, enc>>

SendRejected(i) == Settle(i, "rejected", "rejected")

\* Arguments of the turn blocks: PORT as the menu delivers it, TIME in seconds.
PortArgs == {1, 3}
SecondsArgs == {0, 1}

Next ==
    \/ Tick
    \/ _scan
    \/ ScanResolved
    \/ ScanRejected
    \/ \E p \in Peripherals : DidDiscoverPeripheral(p)
    \/ DidReceiveMessage
    \/ ConnectResolved
    \/ ConnectRejected
    \/ \E port \in PortArgs, secs \in SecondsArgs : motorTurnClockwise(port, secs)
    \/ \E port \in PortArgs, secs \in SecondsArgs : motorTurnCounterClockwise(port, secs)
    \/ beep
    \/ \E i \in DOMAIN calls : TimerFires(i)
    \/ \E i \in DOMAIN sent : SendAcknowledged(i)
    \/ \E i \in DOMAIN sent : SendRejected(i)

Spec == Init /\ [][Next]_vars

\* Timers expire: time passes and a due setTimeout callback is run.
FairSpec ==
    /\ Spec
    /\ WF_vars(Tick)
    /\ \A i \in 1..MaxSends : WF_vars(TimerFires(i))

-----------------------------------------------------------------------------
(* Properties of the connection life cycle and of the blocks *)

\* The sendMessage calls made for call i.
SendsOf(i) == {j \in DOMAIN sent : sent[j].call = i}

\* C1: a message is passed to sendMessage only in state Connected; a block
\* called while the connect request is still pending transmits nothing.
C1_SendOnlyWhenConnected ==
    [][Len(sent') > Len(sent) => ConnectionState = "Connected"]_vars

\* C2: a discovery delivered while the state is Connecting or Connected is
\* ignored (no connectDevice call, the connection fields unchanged), and at
\* most one connect request is pending at any time.
C2_DiscoveryIgnoredWhileBusy ==
    [][/\ (ConnectionState \in {"Connecting", "Connected"} /\ lastDiscovered' # lastDiscovered)
            => UNCHANGED <<connected, connectCalls, connectPending,
                           connectResult, peripheral, scanRequest>>
       /\ ConnectionState \in {"Connecting", "Connected"}
            => connectCalls' = connectCalls /\ peripheral' = peripheral
       /\ connectPending' <= 1]_vars

\* A second peripheral was reported while the first connect was pending,
\* and the pending request is still the first one.
C2_Witness ==
    /\ ConnectionState = "Connecting"
    /\ connectCalls = 1
    /\ lastDiscovered # peripheral

C3_Transitions ==
    {<<"Disconnected", "Scanning">>, <<"Scanning", "Connecting">>,
     <<"Connecting", "Connected">>, <<"Connecting", "Disconnected">>}

\* C3 as stated: connectDevice is called only for a discovery delivered in
\* state Scanning, and the state moves only along Disconnected->Scanning,
\* Scanning->Connecting, Connecting->Connected, Connecting->Disconnected.
C3_ConnectOnlyFromScanning ==
    [][/\ connectCalls' # connectCalls => ConnectionState = "Scanning"
       /\ ConnectionState' # ConnectionState
            => <<ConnectionState, ConnectionState'>> \in C3_Transitions]_vars

\* C3 as amended: connectDevice is called only for a discovery delivered
\* while this.connected is false (state Scanning or Disconnected) and
\* moves the state to Connecting; the state moves only along the four
\* transitions above and Disconnected->Connecting.
C3_ConnectOnlyWhenNotConnected ==
    [][/\ connectCalls' # connectCalls
            => /\ ConnectionState \in {"Scanning", "Disconnected"}
               /\ ConnectionState' = "Connecting"
               /\ connectCalls' = connectCalls + 1
               /\ lastDiscovered' = peripheral'
       /\ ConnectionState' # ConnectionState
            => <<ConnectionState, ConnectionState'>>
                 \in C3_Transitions \cup {<<"Disconnected", "Connecting">>}]_vars

\* A discovery after a connect failure has started a second connect attempt.
C3_Witness ==
    /\ connectCalls = 2
    /\ connectResult = "rejected"
    /\ ConnectionState = "Connecting"

\* C4: a rejected connect request leaves the state Disconnected, a resolved
\* one leaves it Connected, and after a rejection no block transmits until
\* a new connect attempt is made.
C4_ConnectOutcome ==
    [][/\ (connectPending' < connectPending /\ connectResult' = "rejected")
            => ConnectionState' = "Disconnected"
       /\ (connectPending' < connectPending /\ connectResult' = "resolved")
            => ConnectionState' = "Connected"
       /\ (connectResult = "rejected" /\ connectPending = 0)
            => Len(sent') = Len(sent)]_vars

\* The only connect request was rejected after a block had sent during it,
\* and the block called last, after the rejection, returned without sending.
C4_Witness ==
    /\ connectCalls = 1
    /\ connectResult = "rejected"
    /\ connectPending = 0
    /\ ConnectionState = "Disconnected"
    /\ Len(sent) = 1
    /\ lastReturn = "undefined"

\* C5: while this.connected is false no step calls sendMessage, starts a
\* completion timer or returns a promise: a block call returns undefined
\* and changes nothing else.
C5_NoSendWhileDisconnected ==
    [][~connected
          => /\ Len(sent') = Len(sent)
             /\ Len(calls') = Len(calls)
             /\ lastReturn' \in {lastReturn, "undefined"}
             /\ lastReturn' # lastReturn
                  => UNCHANGED <<connected, scanTimer, scanRequest,
                                 connectCalls, connectPending, connectResult,
                                 peripheral, lastDiscovered, sent, calls>>]_vars

\* A block was called before any discovery was acted on, and returned
\* undefined with nothing sent and no call pending.
C5_Witness ==
    /\ ~connected
    /\ connectCalls = 0
    /\ lastReturn = "undefined"
    /\ sent = <<>>
    /\ calls = <<>>

C7_TurnEventuallyCompletes ==
    \A i \in 1..MaxSends :
        (i \in DOMAIN calls /\ calls[i].timer)
            ~> (i \in DOMAIN calls /\ calls[i].status = "resolved")

\* A turn has completed although the connect request was rejected and the
\* send was rejected after its dispatch.
C7_Witness ==
    \E i \in DOMAIN calls :
        /\ calls[i].timer
        /\ calls[i].status = "resolved"
        /\ calls[i].time = 1000
        /\ ~connected
        /\ \E j \in SendsOf(i) : sent[j].result = "rejected"

\* C8: a beep call makes exactly one sendMessage call, with the fixed
\* message, starts no timer, and is resolved exactly when that send is
\* acknowledged.
C8_BeepCompletesOnAck ==
    \A i \in DOMAIN calls :
        calls[i].op = "beep"
            => /\ ~calls[i].timer
               /\ Cardinality(SendsOf(i)) = 1
               /\ \A j \in SendsOf(i) :
                    /\ sent[j].message = BeepMessage
                    /\ (calls[i].status = "resolved") <=> (sent[j].result = "acked")
                    /\ (calls[i].status = "waiting") <=> (sent[j].result = "pending")

C8_Witness ==
    \E i \in DOMAIN calls :
        /\ calls[i].op = "beep"
        /\ calls[i].status = "resolved"

\* The instruction C9 states, and the one the code builds, each in its frame.
C9_StatedFrame ==
    <<18, 0, 1, 0, 0, 0, 0,
      175, 0, 1, 129, 50, 129, 50, 130, 0, 0, 129, 50, 1>>

C9_BuiltFrame ==
    <<18, 0, 1, 0, 0, 0, 0,
      175, 0, 1, 129, 50, 129, 50, 130, 132, 3, 129, 50, 1>>

C9_IsCall(i) ==
    /\ calls[i].op = "motorTurnClockwise"
    /\ calls[i].port = 1
    /\ calls[i].time = 1000

\* C9 as stated: turnClockwise(A, 1) sends once the frame whose run-length
\* field is 0x82, 0, 0 and completes after at least 1000 ms.
C9_EndToEndStated ==
    \A i \in DOMAIN calls :
        C9_IsCall(i)
            => /\ Cardinality(SendsOf(i)) = 1
               /\ \A j \in SendsOf(i) : sent[j].message = btoa(C9_StatedFrame)
               /\ calls[i].status = "resolved" => calls[i].elapsed >= 1000

\* C9 as amended: the run-length field is 0x82, lo(900), hi(900), the
\* steady run left of 1000 ms after two ramps of 50 ms.
C9_EndToEndBuilt ==
    \A i \in DOMAIN calls :
        C9_IsCall(i)
            => /\ Cardinality(SendsOf(i)) = 1
               /\ \A j \in SendsOf(i) : sent[j].message = btoa(C9_BuiltFrame)
               /\ calls[i].status = "resolved" => calls[i].elapsed >= 1000

C9_Witness ==
    \E i \in DOMAIN calls :
        /\ C9_IsCall(i)
        /\ calls[i].status = "resolved"
        /\ ConnectionState = "Connected"

\* The position of a character in the base64 alphabet, counted from 0.
B64Value(c) == (CHOOSE k \in 1..64 : B64[k] = c) - 1

\* The port byte of a transmitted turn frame: byte 10 of the frame, the
\* first byte of the fourth base64 group of the message.
PortByteOf(message) ==
    B64Value(message[13]) * 4 + (B64Value(message[14]) \div 16)

\* C17: a turn command issued with the menu choice of port A, B, C or D
\* carries that port's bit flag (1, 2, 4, 8) in the port byte of its frame.
C17_PortByteIsFlag ==
    \A j \in DOMAIN sent :
        \A i \in DOMAIN calls :
            (sent[j].call = i /\ calls[i].timer)
                => \E k \in DOMAIN MOTOR_PORTS :
                     /\ _buildMenu(MOTOR_PORTS)[k].value = calls[i].port
                     /\ PortByteOf(sent[j].message) = MOTOR_PORTS[k].value

\* C18: no block call ends in an error: a rejected scan, connect or send
\* request never rejects the promise a block returned.
C18_NoFailureSurfaced ==
    \A i \in DOMAIN calls : calls[i].status # "rejected"

\* C19: the device request is made at most once, by the constructor's
\* timer and never again after it was made, and once it is rejected the
\* state is and stays Disconnected.
C19_ScanOnce ==
    [][/\ (scanRequest' = "pending" /\ scanRequest # "pending")
            => (scanRequest = "none" /\ scanTimer = 0)
       /\ scanRequest # "none" => scanRequest' # "none"
       /\ scanRequest' = "rejected"
            => /\ ConnectionState' = "Disconnected"
               /\ connectCalls' = 0
       /\ scanRequest = "rejected" => scanRequest' = "rejected"]_vars

\* The device request was rejected, and time has passed and a block was
\* called since without a new request.
C19_Witness ==
    /\ scanRequest = "rejected"
    /\ ConnectionState = "Disconnected"
    /\ lastReturn = "undefined"

\* C20: a sendMessage call is made only within a block call made while
\* this.connected is set, one call per block call; no callback or timer
\* makes one, so a dropped command is never transmitted later.
C20_NoReplay ==
    [][/\ Len(sent') # Len(sent)
            => /\ connected
               /\ Len(sent') = Len(sent) + 1
               /\ Len(calls') = Len(calls) + 1
               /\ sent'[Len(sent')].call = Len(calls')
               /\ lastReturn' = "promise"
               /\ UNCHANGED <<connected, scanTimer, scanRequest, connectCalls,
                              connectPending, connectResult, peripheral,
                              lastDiscovered>>
       /\ \A i \in DOMAIN calls' : Cardinality({j \in DOMAIN sent' : sent'[j].call = i}) = 1
       /\ \A j \in DOMAIN sent' : sent'[j].call \in DOMAIN calls']_vars

\* A command was dropped, the connection was then established, and nothing
\* has been transmitted.
C20_Witness ==
    /\ lastReturn = "undefined"
    /\ ConnectionState = "Connected"
    /\ sent = <<>>

\* A step of a block, of a turn's completion timer, of a send result or of
\* a didReceiveMessage notification.
C21_BlockOrNotification ==
    \/ beep
    \/ \E port \in PortArgs, secs \in SecondsArgs :
          \/ motorTurnClockwise(port, secs)
          \/ motorTurnCounterClockwise(port, secs)
    \/ \E i \in DOMAIN calls : TimerFires(i)
    \/ \E i \in DOMAIN sent : SendAcknowledged(i) \/ SendRejected(i)
    \/ DidReceiveMessage

C22_ConnectedAbsorbing ==
    /\ [](connectResult = "resolved" => ConnectionState = "Connected")
    /\ [][/\ ConnectionState = "Connected" => ConnectionState' = "Connected"
          /\ (ConnectionState # "Disconnected" /\ ConnectionState' = "Disconnected")
               => /\ ConnectRejected
                  /\ connectPending > 0
                  /\ connectResult' = "rejected"]_vars

\* The connection was acknowledged, another peripheral was discovered
\* afterwards and a sendMessage call was rejected: the state is Connected.
C22_Witness ==
    /\ ConnectionState = "Connected"
    /\ connectResult = "resolved"
    /\ lastDiscovered # "none"
    /\ lastDiscovered # peripheral
    /\ \E j \in DOMAIN sent : sent[j].result = "rejected"

-----------------------------------------------------------------------------
(* The encoder on its own: one _motorCommand call on arguments drawn from  *)
(* bounded sets                                                            *)

\* Run lengths around the 16-bit threshold of getRunValues and up to the
\* largest 32-bit signed value.
LongDurations == {32766, 32767, 32768, 32867, 65535, 65536, 16777216, 2147483647}

\* Run lengths around twice the ramp constant of the turn blocks.
RampDurations == {98, 99, 100, 101}

EncDurations ==
    (-MaxDuration)..MaxDuration \cup LongDurations \cup RampDurations
        \cup {-32867, -65536, -99, -2147483647}
EncSpeeds == {-100, -50, -1, 0, 1, 50, 100}
EncRamps == 0..MaxRampArg \cup {LONGRAMP}

\* The values the PORT menu delivers and the bit flags of MOTOR_PORTS.
EncPorts == MenuValues \cup {MOTOR_PORTS[k].value : k \in DOMAIN MOTOR_PORTS}

EncInit ==
    /\ constructor
    /\ enc \in [stage : {"args"}, port : EncPorts, n : EncDurations,
                spd : EncSpeeds, ramp : EncRamps, command : {STEPSPEED, TIMESPEED},
                out : {<<>>}, runvals : {<<>>}, addr : {0}, frame : {<<>>},
                hi : {0}, op : {"none"}, message : {<<>>}]

\* this._motorCommand(TIMESPEED, port, time, speed, ramp)
EncMotorCommand ==
    /\ enc.stage = "args"
    /\ enc' = [enc EXCEPT
                !.stage = "command",
                !.out = _motorCommand(enc.command, enc.port, enc.n, enc.spd, enc.ramp)]
    /\ UNCHANGED <<connected, scanTimer, scanRequest, connectCalls,
                   connectPending, connectResult, peripheral, lastDiscovered,
                   sent, calls, lastReturn>>

\* getRunValues(run) on the run length |n|.
EncRunValues ==
    /\ enc.stage = "args"
    /\ enc' = [enc EXCEPT
                !.stage = "run",
                !.runvals = getRunValues(Abs(enc.n))]
    /\ UNCHANGED <<connected, scanTimer, scanRequest, connectCalls,
                   connectPending, connectResult, peripheral, lastDiscovered,
                   sent, calls, lastReturn>>

\* The high 16-bit words of the runs beyond the model's integers: up to
\* and past the width of the NUM32 field.
HighWords == {1, 32768, 65535, 65536, 65537}

\* getRunValues(run) on the run length hi * 65536 + (|n| % 65536).
EncRunValuesWide(hi) ==
    /\ enc.stage = "args"
    /\ enc' = [enc EXCEPT
                !.stage = "wide",
                !.hi = hi,
                !.runvals = getRunValuesWide(hi, Abs(enc.n) % 65536)]
    /\ UNCHANGED <<connected, scanTimer, scanRequest, connectCalls,
                   connectPending, connectResult, peripheral, lastDiscovered,
                   sent, calls, lastReturn>>

\* The blocks that turn a motor.
TurnOps == {"motorTurnClockwise", "motorTurnCounterClockwise"}

\* The speed a turn block passes to _motorCommand.
TurnSpeed(op) == IF op = "motorTurnClockwise" THEN speed ELSE speed * (-1)

\* The message a turn block builds for PORT = port and TIME = n seconds,
\* for the values of TIME whose milliseconds fit 32 bits.
EncTurn(op) ==
    /\ enc.stage = "args"
    /\ Abs(enc.n) <= 2147483
    /\ enc' = [enc EXCEPT
                !.stage = "turn",
                !.op = op,
                !.message = TurnMessage(enc.port, enc.n, TurnSpeed(op))]
    /\ UNCHANGED <<connected, scanTimer, scanRequest, connectCalls,
                   connectPending, connectResult, peripheral, lastDiscovered,
                   sent, calls, lastReturn>>

\* this._applyPrefix(n, cmd) on the instruction just built.
EncApplyPrefix(n) ==
    /\ enc.stage = "command"
    /\ enc' = [enc EXCEPT
                !.stage = "frame",
                !.addr = n,
                !.frame = _applyPrefix(n, enc.out)]
    /\ UNCHANGED <<connected, scanTimer, scanRequest, connectCalls,
                   connectPending, connectResult, peripheral, lastDiscovered,
                   sent, calls, lastReturn>>

Addresses == {0, 1, 255}

EncNext ==
    \/ EncMotorCommand
    \/ EncRunValues
    \/ \E hi \in HighWords : EncRunValuesWide(hi)
    \/ \E op \in TurnOps : EncTurn(op)
    \/ \E n \in Addresses : EncApplyPrefix(n)

EncSpec == EncInit /\ [][EncNext]_vars

\* C10: for a duration d >= 0 and a ramp r with 2r > d the instruction
\* carries rampUp + rampDown = d and a steady run of 0.
C10_ShortRunSplitsRamp ==
    (enc.stage = "command" /\ enc.n >= 0 /\ 2 * enc.ramp > enc.n)
        => /\ Len(enc.out) = 13
           /\ enc.out[7] + enc.out[12] = enc.n
           /\ SubSeq(enc.out, 8, 10) = <<NUM16, 0, 0>>

\* An odd duration shorter than two ramps has been encoded.
C10_Witness ==
    /\ enc.stage = "command"
    /\ enc.n = 7
    /\ enc.ramp = 5
    /\ enc.out[7] = 3
    /\ enc.out[12] = 4

-----------------------------------------------------------------------------
(* Properties of the encoder *)

\* The run length read back from an instruction: the little-endian value
\* of the two or four bytes after the NUM16 or NUM32 marker at position 8.
RunOf(out) ==
    IF out[8] = NUM16
    THEN out[9] + 256 * out[10]
    ELSE out[9] + 256 * out[10] + 65536 * out[11] + 16777216 * out[12]

\* C11: for a duration d >= 0 and a ramp r with 2r <= d the instruction
\* carries rampUp = rampDown = r and a steady run of d - 2r.
C11_LongRunKeepsRamp ==
    (enc.stage = "command" /\ enc.n >= 0 /\ 2 * enc.ramp <= enc.n)
        => /\ enc.out[7] = enc.ramp
           /\ enc.out[Len(enc.out) - 1] = enc.ramp
           /\ RunOf(enc.out) = enc.n - 2 * enc.ramp
           /\ enc.out[7] + RunOf(enc.out) + enc.out[Len(enc.out) - 1] = enc.n

\* A duration longer than two ramps has been encoded.
C11_Witness ==
    /\ enc.stage = "command"
    /\ enc.n = 12
    /\ enc.ramp = 5
    /\ RunOf(enc.out) = 2

\* The run in 0..2^31 - 1 round-trips: NUM16 and two bytes below 0x7FFF,
\* NUM32 and four bytes from 0x7FFF on, low byte first.
RoundTrip(run, v) ==
    /\ \A k \in 2..Len(v) : v[k] \in 0..255
    /\ run < 32767
         => /\ Len(v) = 3
            /\ v[1] = NUM16
            /\ v[2] + 256 * v[3] = run
    /\ run >= 32767
         => /\ Len(v) = 5
            /\ v[1] = NUM32
            /\ v[2] + 256 * v[3] + 65536 * v[4] + 16777216 * v[5] = run

\* The run hi * 65536 + lo >= 65536 round-trips in the five-byte form: the
\* low and the high 16-bit word decode to lo and hi.
RoundTripWide(hi, lo, v) ==
    /\ Len(v) = 5
    /\ v[1] = NUM32
    /\ \A k \in 2..5 : v[k] \in 0..255
    /\ v[2] + 256 * v[3] = lo
    /\ v[4] + 256 * v[5] = hi

\* C12 as stated: getRunValues gives NUM16 and two bytes for a run below
\* 0x7FFF, and NUM32 and four bytes for every run from 0x7FFF on, in both
\* cases low byte first and decoding to the run.
C12_RunValuesRoundTrip ==
    /\ enc.stage = "run" => RoundTrip(Abs(enc.n), enc.runvals)
    /\ enc.stage = "wide"
         => RoundTripWide(enc.hi, Abs(enc.n) % 65536, enc.runvals)

\* C12 (amended): getRunValues gives NUM16 and two bytes for a run below
\* 0x7FFF, and NUM32 and four bytes from 0x7FFF on, low byte first; the
\* bytes decode to the run when the run is below 2^32, and to the run
\* modulo 2^32 otherwise.
C12_RunValuesRoundTrip32 ==
    /\ enc.stage = "run" => RoundTrip(Abs(enc.n), enc.runvals)
    /\ enc.stage = "wide"
         => RoundTripWide(enc.hi % 65536, Abs(enc.n) % 65536, enc.runvals)

\* The boundary run 0x7FFF has been encoded in the five-byte form.
C12_Witness ==
    /\ enc.stage = "run"
    /\ enc.n = 32767
    /\ enc.runvals = <<NUM32, 255, 127, 0, 0>>

\* The instruction for a run length n and a speed spd with the arguments
\* of the encoding at hand.
C13_Encode(n, spd) == _motorCommand(enc.command, enc.port, n, spd, enc.ramp)

\* C13: with s = |speed| and d = |duration| > 0, (-s, +d) and (+s, -d) give
\* the same direction byte, (-s, -d) and (+s, +d) give the same direction
\* byte, and all four carry the ramp and run bytes of duration d.
C13_DirectionSignConsistent ==
    (enc.stage = "command" /\ enc.n # 0)
        => LET d == Abs(enc.n)
               s == Abs(enc.spd)
               tail(o) == SubSeq(o, 6, Len(o))
           IN  /\ enc.out \in {C13_Encode(d, s), C13_Encode(d, -s),
                               C13_Encode(-d, s), C13_Encode(-d, -s)}
               /\ C13_Encode(d, -s)[5] = C13_Encode(-d, s)[5]
               /\ C13_Encode(-d, -s)[5] = C13_Encode(d, s)[5]
               /\ tail(enc.out) = tail(C13_Encode(d, s))
               /\ enc.out[5] = IF (enc.n < 0) = (enc.spd < 0)
                               THEN C13_Encode(d, s)[5]
                               ELSE C13_Encode(-d, s)[5]

\* A negative speed with a positive duration has been encoded as reverse.
C13_Witness ==
    /\ enc.stage = "command"
    /\ enc.spd = -50
    /\ enc.n = 12
    /\ enc.out[5] = 206

\* C14: the direction byte is 256 - |speed| when the signs of speed and
\* duration multiply to a negative, |speed| otherwise, and lies in 0..255.
C14_DirectionByte ==
    enc.stage = "command"
        => LET s == Abs(enc.spd)
               negative == \/ enc.spd < 0 /\ enc.n > 0
                           \/ enc.spd > 0 /\ enc.n < 0
           IN  /\ enc.out[5] = IF negative THEN 256 - s ELSE s
               /\ enc.out[5] \in 0..255

\* Speed 0 with a negative duration has been encoded: 0x100 - 0 masked to 0.
C14_Witness ==
    /\ enc.stage = "command"
    /\ enc.spd = 0
    /\ enc.n < 0
    /\ enc.out[5] = 0

\* C15: the frame is lenLo, lenHi, 1, 0, 0, n, 0 and then the instruction,
\* with lenLo + 256 * lenHi = instruction length + 5, the number of frame
\* bytes after the two length bytes.
C15_FramePrefix ==
    enc.stage = "frame"
        => /\ Len(enc.frame) = Len(enc.out) + 7
           /\ SubSeq(enc.frame, 3, 7) = <<1, 0, 0, enc.addr, 0>>
           /\ SubSeq(enc.frame, 8, Len(enc.frame)) = enc.out
           /\ enc.frame[1] \in 0..255
           /\ enc.frame[2] \in 0..255
           /\ enc.frame[1] + 256 * enc.frame[2] = Len(enc.out) + 5
           /\ enc.frame[1] + 256 * enc.frame[2] = Len(enc.frame) - 2

\* A 15-byte instruction has been framed with a non-zero addressing value.
C15_Witness ==
    /\ enc.stage = "frame"
    /\ Len(enc.out) = 15
    /\ enc.addr = 255
    /\ enc.frame[1] = 20

\* C16: the instruction is opcode, 0, port, 0x81, dirByte, 0x81, rampUp,
\* the run-length encoding of the steady run, 0x81, rampDown, 1: 13 bytes
\* when the steady run is below 0x7FFF and 15 bytes otherwise.
C16_InstructionLayout ==
    enc.stage = "command"
        => LET d == Abs(enc.n)
               short == d - 2 * enc.ramp < 0
               run == IF short THEN 0 ELSE d - 2 * enc.ramp
               o == enc.out
               w == IF run < 32767 THEN 3 ELSE 5
           IN  /\ Len(o) = 10 + w
               /\ SubSeq(o, 1, 4) = <<enc.command, 0, enc.port, 129>>
               /\ o[5] \in 0..255
               /\ o[6] = 129
               /\ o[7] = IF short THEN d \div 2 ELSE enc.ramp
               /\ o[8] = IF run < 32767 THEN 130 ELSE 131
               /\ RunOf(o) = run
               /\ o[8 + w] = 129
               /\ o[9 + w] = IF short THEN d - (d \div 2) ELSE enc.ramp
               /\ o[10 + w] = 1

\* An instruction with a 32-bit run length has been built.
C16_Witness ==
    /\ enc.stage = "command"
    /\ enc.command = STEPSPEED
    /\ enc.n = 65536
    /\ Len(enc.out) = 15

\* The other turn block.
Opposite(op) ==
    IF op = "motorTurnClockwise"
    THEN "motorTurnCounterClockwise"
    ELSE "motorTurnClockwise"

\* The bytes of a base64 message: four characters give three bytes.
RECURSIVE atob(_)
atob(message) ==
    IF Len(message) = 0 THEN <<>>
    ELSE LET a == B64Value(message[1])
             b == B64Value(message[2])
             c == IF message[3] = "=" THEN 0 ELSE B64Value(message[3])
             d == IF message[4] = "=" THEN 0 ELSE B64Value(message[4])
             three == <<a * 4 + (b \div 16), (b % 16) * 16 + (c \div 4),
                        (c % 4) * 64 + d>>
             kept == IF message[3] = "=" THEN 1
                     ELSE IF message[4] = "=" THEN 2 ELSE 3
         IN  SubSeq(three, 1, kept) \o atob(SubSeq(message, 5, Len(message)))

\* C23: for every port and every duration t # 0, a turn block called with
\* -t builds the message the other turn block builds with +t, and the run
\* length in it is that of |t|.
C23_NegativeDurationReverses ==
    (enc.stage = "turn" /\ enc.n # 0)
        => LET other == TurnMessage(enc.port, -enc.n, TurnSpeed(Opposite(enc.op)))
               frame == atob(enc.message)
               t == Abs(enc.n) * 1000
           IN  /\ enc.message = other
               /\ RunOf(SubSeq(frame, 8, Len(frame)))
                    = IF t < 2 * LONGRAMP THEN 0 ELSE t - 2 * LONGRAMP
               /\ frame[12] = IF (enc.n < 0) = (enc.op = "motorTurnClockwise")
                              THEN 256 - speed
                              ELSE speed

\* motorTurnClockwise with a negative duration has built a reverse frame.
C23_Witness ==
    /\ enc.stage = "turn"
    /\ enc.op = "motorTurnClockwise"
    /\ enc.n = -3
    /\ enc.port = 2
    /\ atob(enc.message)[12] = 206

\* C24: every element of a frame built with the arguments of a turn block
\* (TIMESPEED, port 1, 2, 4 or 8, speed 50 or -50, ramp LONGRAMP, a duration
\* of magnitude below 2^31) lies in 0..255, rampUp and rampDown do not
\* exceed the ramp constant, and rampDown - rampUp is 0 or 1.
C24_FrameBytes ==
    (/\ enc.stage = "frame"
     /\ enc.command = TIMESPEED
     /\ enc.port \in {1, 2, 4, 8}
     /\ enc.spd \in {speed, speed * (-1)}
     /\ enc.ramp = LONGRAMP
     /\ enc.addr = 0)
        => LET f == enc.frame
               rampUp == f[14]
               rampDown == f[Len(f) - 1]
           IN  /\ \A k \in DOMAIN f : f[k] \in 0..255
               /\ rampUp <= LONGRAMP
               /\ rampDown <= LONGRAMP
               /\ rampDown - rampUp \in {0, 1}
               /\ Uint8Array(f) = f

\* An odd duration shorter than two ramps has been framed for port D.
C24_Witness ==
    /\ enc.stage = "frame"
    /\ enc.command = TIMESPEED
    /\ enc.port = 8
    /\ enc.spd = -50
    /\ enc.ramp = LONGRAMP
    /\ enc.addr = 0
    /\ enc.n = 99
    /\ enc.frame[14] = 49
    /\ enc.frame[Len(enc.frame) - 1] = 50

=============================================================================
